---- MODULE Spec2Model ----
(***************************************************************************)
(* Model of src/main.py (Sonarr disk balancer): the two greedy planners,   *)
(* the move orchestrator, the two JSON stores and the log monitor.         *)
(*                                                                         *)
(* Sizes are kept in bytes.  The source divides every byte count by 2^30   *)
(* in binary floating point; that scaling is exact and order preserving    *)
(* for counts below 2^53, so sums, differences and comparisons of the GB   *)
(* values are those of the byte counts.                                    *)
(***************************************************************************)
EXTENDS Integers, Sequences, FiniteSets, TLC

\* ------------------------------------------------------------------ bounds
NumSeries == 2
MaxDisks == 2
MaxFree == 1
MaxMovesBound == 2
MaxRuns == 2
MaxDays == 1

\* ------------------------------------------------------- program constants
PollInterval == 3
SecondsPerDay == 86400

\* ------------------------------------------------------------------- paths
\* A path string is its lower-case, slash-stripped text n, whether it is
\* spelled with upper-case letters (up) and whether it ends in "/" (sl).
Names == {"a", "b", "c"}

Path == [n : Names, up : BOOLEAN, sl : BOOLEAN]

MkPath(n, up, sl) == [n |-> n, up |-> up, sl |-> sl]

rstrip(p) == [p EXCEPT !.sl = FALSE]

lower(p) == [p EXCEPT !.up = FALSE]

\* config['valid_root_paths'] as written by the operator: "/A/" and "/b"
ConfigValidRootPaths == {MkPath("a", TRUE, TRUE), MkPath("b", FALSE, FALSE)}

valid_root_paths == {lower(rstrip(p)) : p \in ConfigValidRootPaths}

\* ----------------------------------------------------------------- helpers
RECURSIVE SumSeq(_)
SumSeq(s) == IF s = <<>> THEN 0 ELSE Head(s) + SumSeq(Tail(s))

Range(s) == {s[i] : i \in 1..Len(s)}

\* ------------------------------------------------------- external snapshot
\* What GET /series and GET /episodefile return: one entry per series, with
\* the sizes of its episode files.  The folder name of a series is its id.
FileSizeLists == {<<>>, <<1>>, <<1, 1>>}

SeriesRootPaths == {MkPath("a", FALSE, FALSE), MkPath("b", TRUE, TRUE),
                    MkPath("c", FALSE, FALSE)}

\* a series without files, series with files on an allowed root, and a series
\* on a root the allow-list does not name
SeriesEntries ==
    {e \in [rootFolderPath : SeriesRootPaths, sizes : FileSizeLists] :
        /\ e.sizes = <<>> => e.rootFolderPath.n = "a"
        /\ e.rootFolderPath.n = "c" => e.sizes = <<1>>}

SeriesLists == [1..NumSeries -> SeriesEntries]

\* What GET /diskspace returns: distinct mount points with their free bytes.
DiskPaths == {MkPath("a", FALSE, TRUE), MkPath("b", FALSE, FALSE),
              MkPath("b", TRUE, FALSE), MkPath("c", FALSE, FALSE)}

DiskLists ==
    UNION {{d \in [1..k -> [path : DiskPaths, freeSpace : 0..MaxFree]] :
              \A i, j \in 1..k : i # j => rstrip(d[i].path) # rstrip(d[j].path)}
           : k \in 1..MaxDisks}

\* get_series_info, lines 73-94: keep the series on an allowed root that have
\* files, with the root normalised.
RECURSIVE SeriesData(_, _)
SeriesData(list, i) ==
    IF i > Len(list) THEN <<>>
    ELSE LET root_folder_path == lower(rstrip(list[i].rootFolderPath))
             total_size_bytes == SumSeq(list[i].sizes)
         IN  IF root_folder_path \in valid_root_paths /\ total_size_bytes > 0
             THEN <<[series_id |-> i,
                     path |-> <<list[i].rootFolderPath, i>>,
                     root_folder_path |-> root_folder_path,
                     total_size_bytes |-> total_size_bytes]>>
                  \o SeriesData(list, i + 1)
             ELSE SeriesData(list, i + 1)

get_series_info(list) == SeriesData(list, 1)

\* sort_values(by='total_size_gb', ascending=True): ascending by size, rows of
\* equal size in their original order (numpy sorts fewer than 17 rows by
\* insertion).
RECURSIVE InsertRow(_, _)
InsertRow(sorted, row) ==
    IF sorted = <<>> THEN <<row>>
    ELSE IF row.total_size_bytes < Head(sorted).total_size_bytes
         THEN <<row>> \o sorted
         ELSE <<Head(sorted)>> \o InsertRow(Tail(sorted), row)

RECURSIVE sort_values(_)
sort_values(df) ==
    IF df = <<>> THEN <<>>
    ELSE InsertRow(sort_values(SubSeq(df, 1, Len(df) - 1)), df[Len(df)])

\* ------------------------------------------------------ disk-space tables
\* pd.DataFrame(disk_spaces) with trailing "/" stripped, indexed by path:
\* the index keeps the order of the reply.
disk_index(disks) == [i \in 1..Len(disks) |-> rstrip(disks[i].path)]

RECURSIVE FilterIndex(_)
FilterIndex(index) ==
    IF index = <<>> THEN <<>>
    ELSE IF Head(index) \in valid_root_paths
         THEN <<Head(index)>> \o FilterIndex(Tail(index))
         ELSE FilterIndex(Tail(index))

free_space_of(disks, index) ==
    [p \in Range(index) |->
        (CHOOSE i \in 1..Len(disks) : rstrip(disks[i].path) = p)]

initial_free_space(disks, index) ==
    [p \in Range(index) |-> disks[free_space_of(disks, index)[p]].freeSpace]

\* idxmax as a scan that keeps the last maximum instead of the first
idxmax_last(index, free) ==
    index[CHOOSE i \in 1..Len(index) :
             /\ \A j \in 1..Len(index) : free[index[j]] <= free[index[i]]
             /\ \A j \in (i + 1)..Len(index) : free[index[j]] < free[index[i]]]

\* Series.idxmax(): the first label, in index order, that holds the maximum.
idxmax(index, free) ==
    index[CHOOSE i \in 1..Len(index) :
             /\ \A j \in 1..Len(index) : free[index[j]] <= free[index[i]]
             /\ \A j \in 1..(i - 1) : free[index[j]] < free[index[i]]]

\* ------------------------------------------------------------- store keys
\* str(series_id): the JSON key of a series, its decimal text
str(series_id) == <<series_id>>

\* datetime.isoformat() / datetime.fromisoformat(): the date and the time of
\* day of a clock value in seconds
isoformat(t) == <<t \div SecondsPerDay, t % SecondsPerDay>>

fromisoformat(s) == s[1] * SecondsPerDay + s[2]

\* ------------------------------------------------------------------- state
VARIABLES
    pc,               \* position of the process
    runs,             \* invocations of the script started so far
    dry_run,          \* config['dry_run'] / --dry-run
    max_moves,        \* config['max_moves'] / --max-moves
    timeout,          \* config['timeout_seconds']
    cooldown_days,    \* config['cooldown_days']
    now,              \* the wall clock, in seconds
    days,             \* days that went by between invocations
    series_df,        \* rows of get_series_info()
    disk_spaces,      \* reply of get_free_space_via_api()
    final_free_space, \* projected free space of the planner at work
    idx,              \* position of the planner's for loop in the sorted rows
    report_recs,      \* recommendations of report_free_space_heuristically
    recommendations,  \* recommendations of balance_free_space_heuristically
    moves_count,      \* moves_count of balance_free_space_heuristically
    state,            \* the dict loaded from move_state.json
    moves_completed,  \* moves_completed of perform_moves
    rec_i,            \* position of perform_moves' for loop
    start_time,       \* start_time of monitor_sonarr_logs
    state_file,       \* move_state.json
    history_file,     \* move_history.json
    visit,            \* the planner's last loop iteration
    puts,             \* PUT /series/{id} requests the service received in
                      \* this invocation: <<series_id, target, accepted>>
    accepted,         \* <<series_id, target>> of the PUTs the service accepted
                      \* since move_state.json was last removed
    entry,            \* the two stores as perform_moves found them
    outcome,          \* how the proposal at rec_i - 1 ended
    verdict,          \* the last call of should_move_series on its own
    fetch_error,      \* the fetch of this invocation that failed, if any
    outcomes,         \* how the proposals of this invocation ended, in order
    polls             \* the log fetches of the last monitor_sonarr_logs call

config == <<dry_run, max_moves, timeout, cooldown_days>>
snapshot == <<series_df, disk_spaces>>
planner == <<final_free_space, idx, report_recs, recommendations, moves_count,
             visit>>
stores == <<state_file, history_file>>
clock == <<now, days>>
vars == <<pc, runs, config, clock, snapshot, planner, state, moves_completed,
          rec_i, start_time, stores, puts, accepted, entry, outcome, verdict,
          fetch_error, outcomes, polls>>

NoVisit == [planner |-> "none"]

NoEntry == [state_file |-> <<>>, history_file |-> <<>>]

NoVerdict == [series_id |-> 0]

report_index == FilterIndex(disk_index(disk_spaces))

balance_index == disk_index(disk_spaces)

sorted_df == sort_values(series_df)

\* --------------------------------------------------------------- planners
\* One pass of the loop body both planners share (lines 254-266 and
\* 316-330): the new table, the proposal if any, and whether pandas raised.
\* idxmax of an empty table raises ValueError; reading a label the table
\* does not hold raises KeyError before anything is changed.
simulate_row(index, free, row) ==
    IF index = <<>> THEN [raised |-> TRUE, free |-> free, recs |-> <<>>]
    ELSE LET best_drive == idxmax(index, free)
             root == row.root_folder_path
             size_gb == row.total_size_bytes
         IN  IF root = best_drive
             THEN [raised |-> FALSE, free |-> free, recs |-> <<>>]
             ELSE IF root \notin DOMAIN free
             THEN [raised |-> TRUE, free |-> free, recs |-> <<>>]
             ELSE LET added == [free EXCEPT ![root] = @ + size_gb]
                  IN  [raised |-> FALSE,
                       free |-> [added EXCEPT ![best_drive] = @ - size_gb],
                       recs |-> <<[series_id |-> row.series_id,
                                   current_root |-> root,
                                   recommended_root |-> best_drive,
                                   path |-> row.path,
                                   size_gb |-> size_gb]>>]

Visit(who, index, free, row, out, skipped) ==
    [planner |-> who, series_id |-> row.series_id,
     root |-> row.root_folder_path, size |-> row.total_size_bytes,
     index |-> index, before |-> free, after |-> out.free,
     raised |-> out.raised, emitted |-> out.recs # <<>>, recs |-> out.recs,
     skipped |-> skipped]

\* report_free_space_heuristically, one iteration of the loop at line 253
ReportStep ==
    /\ pc = "report"
    /\ idx <= Len(sorted_df)
    /\ LET row == sorted_df[idx]
           out == simulate_row(report_index, final_free_space, row)
       IN  /\ visit' = Visit("report", report_index, final_free_space, row,
                             out, FALSE)
           /\ final_free_space' = out.free
           /\ report_recs' = report_recs \o out.recs
           /\ IF out.raised
              THEN pc' = "crashed" /\ idx' = idx
              ELSE pc' = pc /\ idx' = idx + 1
    /\ UNCHANGED <<verdict, fetch_error, outcomes, polls, runs, config, clock, snapshot, recommendations, moves_count,
                   state, moves_completed, rec_i, start_time, stores, puts,
                   accepted, entry, outcome>>

\* lines 268-286 (the report is written) and, back in __main__, lines 409-410
\* and 290-303: balance_free_space_heuristically starts on the unfiltered table
ReportEnd ==
    /\ pc = "report"
    /\ idx > Len(sorted_df)
    /\ pc' = "balance"
    /\ final_free_space' = initial_free_space(disk_spaces, balance_index)
    /\ state' = state_file
    /\ recommendations' = <<>>
    /\ moves_count' = 0
    /\ idx' = 1
    /\ visit' = NoVisit
    /\ UNCHANGED <<verdict, fetch_error, outcomes, polls, runs, config, clock, snapshot, report_recs, moves_completed,
                   rec_i, start_time, stores, puts, accepted, entry, outcome>>

\* line 312 without its effect: no series is taken to be in the state file
in_state_never(series_id) == FALSE

\* the test of line 312: the series is in move_state.json
in_state(series_id) == str(series_id) \in DOMAIN state

\* line 306 without its effect: the planner never stops at max_moves
planner_full_never == FALSE

\* the test of line 306: the planner has its max_moves proposals
planner_full == moves_count >= max_moves

\* balance_free_space_heuristically, one iteration of the loop at line 305
BalanceStep ==
    /\ pc = "balance"
    /\ idx <= Len(sorted_df)
    /\ ~planner_full
    /\ LET row == sorted_df[idx]
           out == simulate_row(balance_index, final_free_space, row)
           same == [raised |-> FALSE, free |-> final_free_space, recs |-> <<>>]
       IN  IF in_state(row.series_id)
           THEN /\ visit' = Visit("balance", balance_index, final_free_space,
                                  row, same, TRUE)
                /\ idx' = idx + 1
                /\ UNCHANGED <<pc, final_free_space, recommendations,
                               moves_count>>
           ELSE /\ visit' = Visit("balance", balance_index, final_free_space,
                                  row, out, FALSE)
                /\ final_free_space' = out.free
                /\ recommendations' = recommendations \o out.recs
                /\ moves_count' = moves_count + Len(out.recs)
                /\ IF out.raised
                   THEN pc' = "crashed" /\ idx' = idx
                   ELSE pc' = pc /\ idx' = idx + 1
    /\ UNCHANGED <<verdict, fetch_error, outcomes, polls, runs, config, clock, snapshot, report_recs, state,
                   moves_completed, rec_i, start_time, stores, puts, accepted,
                   entry, outcome>>

\* lines 332-336 and 189-190: the loop is over, perform_moves is called with
\* the proposals and loads move_state.json
BalanceEnd ==
    /\ pc = "balance"
    /\ (idx > Len(sorted_df) \/ planner_full)
    /\ pc' = "loop"
    /\ state' = state_file
    /\ moves_completed' = 0
    /\ rec_i' = 1
    /\ entry' = [state_file |-> state_file, history_file |-> history_file]
    /\ outcome' = "none"
    /\ outcomes' = <<>>
    /\ UNCHANGED <<verdict, fetch_error, polls, runs, config, clock, snapshot, planner, start_time, stores,
                   puts, accepted>>

\* ----------------------------------------------------------------- stores
\* d[key] = value on a dict
Put(d, key, value) ==
    [k \in DOMAIN d \cup {key} |-> IF k = key THEN value ELSE d[k]]

\* should_move_series with the cooldown test of line 182 as <=
should_move_series_le(series_id, new_root_path) ==
    IF str(series_id) \in DOMAIN history_file
    THEN LET last_move == history_file[str(series_id)]
             last_move_date == fromisoformat(last_move.timestamp)
         IN  IF last_move.last_moved_to = new_root_path
             THEN FALSE
             ELSE IF now - last_move_date <= cooldown_days * SecondsPerDay
                  THEN FALSE
                  ELSE TRUE
    ELSE TRUE

\* should_move_series without the test of line 178
should_move_series_cooldown_only(series_id, new_root_path) ==
    IF str(series_id) \in DOMAIN history_file
    THEN LET last_move == history_file[str(series_id)]
             last_move_date == fromisoformat(last_move.timestamp)
         IN  IF now - last_move_date < cooldown_days * SecondsPerDay
             THEN FALSE
             ELSE TRUE
    ELSE TRUE

\* should_move_series, lines 173-185
should_move_series(series_id, new_root_path) ==
    IF str(series_id) \in DOMAIN history_file
    THEN LET last_move == history_file[str(series_id)]
             last_move_date == fromisoformat(last_move.timestamp)
         IN  IF last_move.last_moved_to = new_root_path
             THEN FALSE
             ELSE IF now - last_move_date < cooldown_days * SecondsPerDay
                  THEN FALSE
                  ELSE TRUE
    ELSE TRUE

\* ------------------------------------------------------------ orchestrator
rec == recommendations[rec_i]

\* the test of line 193: perform_moves has its max_moves moves
cap_reached == moves_completed >= max_moves

\* the proposal at rec_i has ended; the for loop of line 192 goes on
NextProposal(how) ==
    /\ pc' = "loop"
    /\ rec_i' = rec_i + 1
    /\ outcome' = how
    /\ outcomes' = Append(outcomes, how)

\* perform_moves, lines 192-201 and 214-216: the head of the loop and the
\* eligibility test
PerformNext ==
    /\ pc = "loop"
    /\ IF rec_i > Len(recommendations) \/ cap_reached
       THEN pc' = "done" /\ UNCHANGED <<rec_i, outcome, outcomes>>
       ELSE IF should_move_series(rec.series_id, rec.recommended_root)
            THEN /\ pc' = "get"
                 /\ outcome' = "active"
                 /\ UNCHANGED <<rec_i, outcomes>>
            ELSE NextProposal("skipped")
    /\ polls' = <<>>
    /\ UNCHANGED <<verdict, fetch_error, runs, config, clock, snapshot, planner, state,
                   moves_completed, start_time, stores, puts, accepted, entry>>

\* move_series, lines 124-137: the GET of the series, and the dry-run return
MoveSeriesGet ==
    /\ pc = "get"
    /\ \E ok \in BOOLEAN :
          IF ~ok THEN NextProposal("failed")
          ELSE /\ pc' = IF dry_run THEN "record" ELSE "put"
               /\ UNCHANGED <<rec_i, outcome, outcomes>>
    /\ UNCHANGED <<verdict, fetch_error, polls, runs, config, clock, snapshot, planner, state,
                   moves_completed, start_time, stores, puts, accepted, entry>>

\* MoveSeriesPut with a rejected PUT that ends the whole run
MoveSeriesPut_abort ==
    /\ pc = "put"
    /\ \E ok \in BOOLEAN :
          /\ puts' = Append(puts,
                 [series_id |-> rec.series_id, target |-> rec.recommended_root,
                  ok |-> ok,
                  again |-> <<rec.series_id, rec.recommended_root>> \in accepted])
          /\ accepted' = IF ok
                         THEN accepted \cup {<<rec.series_id, rec.recommended_root>>}
                         ELSE accepted
          /\ IF ok THEN pc' = "rescan" /\ UNCHANGED <<rec_i, outcome, outcomes>>
             ELSE /\ pc' = "done"
                  /\ outcome' = "failed"
                  /\ outcomes' = Append(outcomes, "failed")
                  /\ UNCHANGED rec_i
    /\ UNCHANGED <<verdict, fetch_error, polls, runs, config, clock, snapshot,
                   planner, state, moves_completed, start_time, stores, entry>>

\* move_series, lines 139-144: the PUT that relocates the series
MoveSeriesPut ==
    /\ pc = "put"
    /\ \E ok \in BOOLEAN :
          /\ puts' = Append(puts,
                 [series_id |-> rec.series_id, target |-> rec.recommended_root,
                  ok |-> ok,
                  again |-> <<rec.series_id, rec.recommended_root>> \in accepted])
          /\ accepted' = IF ok
                         THEN accepted \cup {<<rec.series_id, rec.recommended_root>>}
                         ELSE accepted
          /\ IF ok THEN pc' = "rescan" /\ UNCHANGED <<rec_i, outcome, outcomes>>
             ELSE NextProposal("failed")
    /\ UNCHANGED <<verdict, fetch_error, polls, runs, config, clock, snapshot, planner, state,
                   moves_completed, start_time, stores, entry>>

\* move_series, lines 146-160: the RescanSeries command
MoveSeriesRescan ==
    /\ pc = "rescan"
    /\ \E ok \in BOOLEAN :
          IF ok THEN pc' = "record" /\ UNCHANGED <<rec_i, outcome, outcomes>>
          ELSE NextProposal("failed")
    /\ UNCHANGED <<verdict, fetch_error, polls, runs, config, clock, snapshot, planner, state,
                   moves_completed, start_time, stores, puts, accepted, entry>>

\* perform_moves, lines 203-206: move_series returned True
RecordState ==
    /\ pc = "record"
    /\ state' = Put(state, str(rec.series_id), rec.recommended_root)
    /\ state_file' = state'
    /\ pc' = "history"
    /\ UNCHANGED <<verdict, fetch_error, outcomes, polls, runs, config, clock, snapshot, planner, moves_completed,
                   rec_i, start_time, history_file, puts, accepted, entry,
                   outcome>>

\* UpdateMoveHistory that records the volume the series came from
UpdateMoveHistory_current ==
    /\ pc = "history"
    /\ history_file' = Put(history_file, str(rec.series_id),
                           [last_moved_to |-> rec.current_root,
                            timestamp |-> isoformat(now)])
    /\ moves_completed' = moves_completed + 1
    /\ pc' = "monitor"
    /\ UNCHANGED <<verdict, fetch_error, outcomes, polls, runs, config, clock,
                   snapshot, planner, state, rec_i, start_time, state_file,
                   puts, accepted, entry, outcome>>

\* update_move_history, lines 162-170, and line 208
UpdateMoveHistory ==
    /\ pc = "history"
    /\ history_file' = Put(history_file, str(rec.series_id),
                           [last_moved_to |-> rec.recommended_root,
                            timestamp |-> isoformat(now)])
    /\ moves_completed' = moves_completed + 1
    /\ pc' = "monitor"
    /\ UNCHANGED <<verdict, fetch_error, outcomes, polls, runs, config, clock, snapshot, planner, state, rec_i,
                   start_time, state_file, puts, accepted, entry, outcome>>

\* MonitorStart that leaves the monitoring to run on its own and lets
\* perform_moves take the next proposal at once
MonitorStart_background ==
    /\ pc = "monitor"
    /\ IF dry_run
       THEN NextProposal("simulated") /\ UNCHANGED start_time
       ELSE /\ start_time' = now
            /\ pc' = "loop"
            /\ rec_i' = rec_i + 1
            /\ UNCHANGED <<outcome, outcomes>>
    /\ polls' = <<>>
    /\ UNCHANGED <<verdict, fetch_error, runs, config, clock, snapshot, planner,
                   state, moves_completed, stores, puts, accepted, entry>>

\* lines 210-211 and monitor_sonarr_logs, lines 340-347
MonitorStart ==
    /\ pc = "monitor"
    /\ IF dry_run
       THEN NextProposal("simulated") /\ UNCHANGED start_time
       ELSE /\ start_time' = now
            /\ pc' = "poll"
            /\ UNCHANGED <<rec_i, outcome, outcomes>>
    /\ polls' = <<>>
    /\ UNCHANGED <<verdict, fetch_error, runs, config, clock, snapshot, planner, state,
                   moves_completed, stores, puts, accepted, entry>>

\* MonitorPoll with a timeout that takes the move back out of the state file
MonitorPoll_rollback ==
    /\ pc = "poll"
    /\ IF now - start_time < timeout
       THEN /\ \E log \in {"match", "other", "error"} :
                  /\ polls' = Append(polls, log)
                  /\ IF log = "match"
                     THEN NextProposal("completed") /\ UNCHANGED clock
                     ELSE /\ now' = now + PollInterval
                          /\ UNCHANGED <<pc, rec_i, outcome, outcomes, days>>
            /\ UNCHANGED <<state, stores>>
       ELSE /\ NextProposal("timed_out")
            /\ UNCHANGED polls
            /\ state' = [k \in DOMAIN state \ {str(rec.series_id)} |-> state[k]]
            /\ state_file' = state'
            /\ UNCHANGED <<clock, history_file>>
    /\ UNCHANGED <<verdict, fetch_error, runs, config, snapshot, planner, moves_completed,
                   start_time, puts, accepted, entry>>

\* MonitorPoll that gives up on the first failed fetch of the log
MonitorPoll_giveup ==
    /\ pc = "poll"
    /\ IF now - start_time < timeout
       THEN \E log \in {"match", "other", "error"} :
               /\ polls' = Append(polls, log)
               /\ IF log = "match"
                  THEN NextProposal("completed") /\ UNCHANGED clock
                  ELSE IF log = "error"
                  THEN NextProposal("timed_out") /\ UNCHANGED clock
                  ELSE /\ now' = now + PollInterval
                       /\ UNCHANGED <<pc, rec_i, outcome, outcomes, days>>
       ELSE NextProposal("timed_out") /\ UNCHANGED <<clock, polls>>
    /\ UNCHANGED <<verdict, fetch_error, runs, config, snapshot, planner, state,
                   moves_completed, start_time, stores, puts, accepted, entry>>

\* monitor_sonarr_logs, lines 349-367: one test of the while condition and,
\* inside the loop, one fetch of the log: it holds the completion message for
\* expected_path, or it does not, or the request fails
MonitorPoll ==
    /\ pc = "poll"
    /\ IF now - start_time < timeout
       THEN \E log \in {"match", "other", "error"} :
               /\ polls' = Append(polls, log)
               /\ IF log = "match"
                  THEN NextProposal("completed") /\ UNCHANGED clock
                  ELSE /\ now' = now + PollInterval
                       /\ UNCHANGED <<pc, rec_i, outcome, outcomes, days>>
       ELSE NextProposal("timed_out") /\ UNCHANGED <<clock, polls>>
    /\ UNCHANGED <<verdict, fetch_error, runs, config, snapshot, planner, state, moves_completed,
                   start_time, stores, puts, accepted, entry>>

\* ------------------------------------------------------------ the process
Timeouts == {0, PollInterval}

CooldownDays == {0, 1}

RunSeriesLists ==
    {s \in SeriesLists : \A i \in 1..NumSeries : Len(s[i].sizes) <= 1}

RunDiskLists ==
    {d \in DiskLists : Len(d) = 2 /\ \A i \in 1..2 : lower(d[i].path) = d[i].path
                                                   /\ d[i].path.n # "c"}

\* __main__, lines 376-390: the flags are read and the configuration checked
StartRun ==
    /\ pc = "idle"
    /\ runs < MaxRuns
    /\ runs' = runs + 1
    /\ dry_run' \in BOOLEAN
    /\ max_moves' \in 0..MaxMovesBound
    /\ \E configured \in BOOLEAN :
          pc' = IF configured THEN "series" ELSE "fatal"
    /\ UNCHANGED <<verdict, fetch_error, outcomes, polls, timeout, cooldown_days, clock, snapshot, planner, state,
                   moves_completed, rec_i, start_time, stores, puts, accepted,
                   entry, outcome>>

\* get_series_info, lines 61-102: a failed request yields an empty frame; a
\* reply without a row to keep fails at line 97 with KeyError
GetSeriesInfo ==
    /\ pc = "series"
    /\ \E ok \in BOOLEAN, list \in RunSeriesLists :
          IF ~ok THEN /\ series_df' = <<>>
                      /\ pc' = "disks"
                      /\ fetch_error' = "series"
          ELSE /\ series_df' = get_series_info(list)
               /\ pc' = IF series_df' = <<>> THEN "crashed" ELSE "disks"
               /\ UNCHANGED fetch_error
    /\ UNCHANGED <<verdict, outcomes, polls, runs, config, clock, disk_spaces, planner, state,
                   moves_completed, rec_i, start_time, stores, puts, accepted,
                   entry, outcome>>

\* get_free_space_via_api, lines 52-59, and __main__, lines 400-412: a failed
\* request is not caught; an empty frame skips report and balancing
GetFreeSpace ==
    /\ pc = "disks"
    /\ \E ok \in BOOLEAN, disks \in RunDiskLists :
          IF ~ok THEN /\ pc' = "crashed"
                      /\ fetch_error' = "disks"
                      /\ UNCHANGED <<disk_spaces, planner>>
          ELSE /\ disk_spaces' = disks
               /\ UNCHANGED fetch_error
               /\ IF series_df = <<>>
                  THEN pc' = "done" /\ UNCHANGED planner
                  ELSE /\ pc' = "report"
                       /\ final_free_space' =
                             initial_free_space(disks,
                                                FilterIndex(disk_index(disks)))
                       /\ idx' = 1
                       /\ report_recs' = <<>>
                       /\ UNCHANGED <<recommendations, moves_count, visit>>
    /\ UNCHANGED <<verdict, outcomes, polls, runs, config, clock, series_df, state, moves_completed,
                   rec_i, start_time, stores, puts, accepted, entry, outcome>>

\* the process ends: everything but the two files is gone
ProcessExit ==
    /\ pc \in {"done", "crashed", "fatal"}
    /\ pc' = "idle"
    /\ series_df' = <<>>
    /\ disk_spaces' = <<>>
    /\ final_free_space' = <<>>
    /\ idx' = 1
    /\ report_recs' = <<>>
    /\ recommendations' = <<>>
    /\ moves_count' = 0
    /\ visit' = NoVisit
    /\ state' = <<>>
    /\ moves_completed' = 0
    /\ rec_i' = 1
    /\ start_time' = 0
    /\ puts' = <<>>
    /\ entry' = NoEntry
    /\ outcome' = "none"
    /\ dry_run' = FALSE
    /\ max_moves' = 0
    /\ fetch_error' = "none"
    /\ outcomes' = <<>>
    /\ polls' = <<>>
    /\ UNCHANGED <<verdict, runs, timeout, cooldown_days, clock, stores, accepted>>

\* between two invocations: a day goes by
TimePasses ==
    /\ pc = "idle"
    /\ days < MaxDays
    /\ days' = days + 1
    /\ now' = now + SecondsPerDay
    /\ UNCHANGED <<verdict, fetch_error, outcomes, polls, pc, runs, config, snapshot, planner, state, moves_completed,
                   rec_i, start_time, stores, puts, accepted, entry, outcome>>

\* between two invocations: the operator removes move_state.json, which
\* load_state (lines 104-109) then reads as {}
RemoveStateFile ==
    /\ pc = "idle"
    /\ state_file # <<>>
    /\ state_file' = <<>>
    /\ accepted' = {}
    /\ UNCHANGED <<verdict, fetch_error, outcomes, polls, pc, runs, config, clock, snapshot, planner, state,
                   moves_completed, rec_i, start_time, history_file, puts,
                   entry, outcome>>

Init ==
    /\ pc = "idle"
    /\ runs = 0
    /\ dry_run = FALSE
    /\ max_moves = 0
    /\ timeout \in Timeouts
    /\ cooldown_days \in CooldownDays
    /\ now = 0
    /\ days = 0
    /\ series_df = <<>>
    /\ disk_spaces = <<>>
    /\ final_free_space = <<>>
    /\ idx = 1
    /\ report_recs = <<>>
    /\ recommendations = <<>>
    /\ moves_count = 0
    /\ visit = NoVisit
    /\ state = <<>>
    /\ moves_completed = 0
    /\ rec_i = 1
    /\ start_time = 0
    /\ state_file = <<>>
    /\ history_file = <<>>
    /\ puts = <<>>
    /\ accepted = {}
    /\ entry = NoEntry
    /\ outcome = "none"
    /\ verdict = NoVerdict
    /\ fetch_error = "none"
    /\ outcomes = <<>>
    /\ polls = <<>>

Next ==
    \/ StartRun \/ GetSeriesInfo \/ GetFreeSpace
    \/ ReportStep \/ ReportEnd \/ BalanceStep \/ BalanceEnd
    \/ PerformNext \/ MoveSeriesGet \/ MoveSeriesPut \/ MoveSeriesRescan
    \/ RecordState \/ UpdateMoveHistory \/ MonitorStart \/ MonitorPoll
    \/ ProcessExit \/ TimePasses \/ RemoveStateFile

Spec == Init /\ [][Next]_vars

\* ------------------------------------------------------ one invocation
\* The two files as earlier invocations can have left them: both empty; a
\* move of series 1 to "/b" at time 0 recorded in both; that move with
\* move_state.json removed since.
EarlierMove ==
    [k \in {str(1)} |-> [last_moved_to |-> MkPath("b", FALSE, FALSE),
                         timestamp |-> isoformat(0)]]

StoreContents ==
    {[state_file |-> <<>>, history_file |-> <<>>],
     [state_file |-> [k \in {str(1)} |-> MkPath("b", FALSE, FALSE)],
      history_file |-> EarlierMove],
     [state_file |-> <<>>, history_file |-> EarlierMove]}

InitRun ==
    /\ pc = "idle"
    /\ runs = MaxRuns - 1
    /\ dry_run = FALSE
    /\ max_moves = 0
    /\ timeout \in Timeouts
    /\ cooldown_days \in CooldownDays
    /\ now \in {0, SecondsPerDay}
    /\ days = 0
    /\ series_df = <<>>
    /\ disk_spaces = <<>>
    /\ final_free_space = <<>>
    /\ idx = 1
    /\ report_recs = <<>>
    /\ recommendations = <<>>
    /\ moves_count = 0
    /\ visit = NoVisit
    /\ state = <<>>
    /\ moves_completed = 0
    /\ rec_i = 1
    /\ start_time = 0
    /\ \E files \in StoreContents :
          /\ state_file = files.state_file
          /\ history_file = files.history_file
    /\ puts = <<>>
    /\ accepted = {}
    /\ entry = NoEntry
    /\ outcome = "none"
    /\ verdict = NoVerdict
    /\ fetch_error = "none"
    /\ outcomes = <<>>
    /\ polls = <<>>

NextRun ==
    \/ StartRun \/ GetSeriesInfo \/ GetFreeSpace
    \/ ReportStep \/ ReportEnd \/ BalanceStep \/ BalanceEnd
    \/ PerformNext \/ MoveSeriesGet \/ MoveSeriesPut \/ MoveSeriesRescan
    \/ RecordState \/ UpdateMoveHistory \/ MonitorStart \/ MonitorPoll
    \/ ProcessExit

SpecRun == InitRun /\ [][NextRun]_vars

\* ------------------------------------------------- the planners on their own
\* move_state.json as earlier runs can have left it
StateFiles == {files.state_file : files \in StoreContents}

InitPlan ==
    /\ pc = "report"
    /\ runs = 1
    /\ dry_run = FALSE
    /\ max_moves \in 0..MaxMovesBound
    /\ timeout = 0
    /\ cooldown_days = 0
    /\ now = 0
    /\ days = 0
    /\ \E list \in SeriesLists :
          /\ series_df = get_series_info(list)
          /\ series_df # <<>>
    /\ disk_spaces \in DiskLists
    /\ final_free_space = initial_free_space(disk_spaces, report_index)
    /\ idx = 1
    /\ report_recs = <<>>
    /\ recommendations = <<>>
    /\ moves_count = 0
    /\ visit = NoVisit
    /\ state = <<>>
    /\ moves_completed = 0
    /\ rec_i = 1
    /\ start_time = 0
    /\ state_file \in StateFiles
    /\ history_file = <<>>
    /\ puts = <<>>
    /\ accepted = {}
    /\ entry = NoEntry
    /\ outcome = "none"
    /\ verdict = NoVerdict
    /\ fetch_error = "none"
    /\ outcomes = <<>>
    /\ polls = <<>>

NextPlan == ReportStep \/ ReportEnd \/ BalanceStep \/ BalanceEnd

SpecPlan == InitPlan /\ [][NextPlan]_vars

\* ------------------------------------------- should_move_series on its own
\* the times of the last move
MoveTimes == {0, 1, SecondsPerDay - 1}

\* the time since the last move: around every whole number of days
Elapsed ==
    {e \in {d * SecondsPerDay + o : d \in 0..(MaxDays + 1), o \in {0 - 1, 0, 1}} :
        e >= 0}

Targets == {rstrip(p) : p \in DiskPaths}

\* move_history.json: empty, or one entry as update_move_history writes it
HistoryFiles ==
    {<<>>} \cup
    {[k \in {str(1)} |-> [last_moved_to |-> v, timestamp |-> isoformat(t)]] :
        v \in Targets, t \in MoveTimes}

InitShould ==
    /\ pc = "loop"
    /\ runs = 1
    /\ dry_run = FALSE
    /\ max_moves = 0
    /\ timeout = 0
    /\ cooldown_days \in CooldownDays
    /\ history_file \in HistoryFiles
    /\ \E e \in Elapsed :
          now = e + (IF history_file = <<>> THEN 0
                     ELSE fromisoformat(history_file[str(1)].timestamp))
    /\ days = 0
    /\ series_df = <<>>
    /\ disk_spaces = <<>>
    /\ final_free_space = <<>>
    /\ idx = 1
    /\ report_recs = <<>>
    /\ recommendations = <<>>
    /\ moves_count = 0
    /\ visit = NoVisit
    /\ state = <<>>
    /\ moves_completed = 0
    /\ rec_i = 1
    /\ start_time = 0
    /\ state_file = <<>>
    /\ puts = <<>>
    /\ accepted = {}
    /\ entry = NoEntry
    /\ outcome = "none"
    /\ verdict = NoVerdict
    /\ fetch_error = "none"
    /\ outcomes = <<>>
    /\ polls = <<>>

\* line 201: should_move_series is called for a series and a target
ShouldMoveCall ==
    /\ \E series_id \in 1..NumSeries, new_root_path \in Targets :
          verdict' = [series_id |-> series_id, new_root_path |-> new_root_path,
                      result |-> should_move_series(series_id, new_root_path)]
    /\ UNCHANGED <<pc, runs, config, clock, snapshot, planner, state,
                   moves_completed, rec_i, start_time, stores, puts, accepted,
                   entry, outcome, fetch_error, outcomes, polls>>

SpecShould == InitShould /\ [][ShouldMoveCall]_vars

\* ------------------------------------------- monitor_sonarr_logs on its own
\* config['timeout_seconds']: none, less than one poll interval, exactly one,
\* more than two
MonitorTimeouts == {0, 1, PollInterval, 2 * PollInterval + 1}

\* perform_moves at line 210: the move of a series to a volume was just
\* recorded (in a dry run as well) and monitor_sonarr_logs is called
InitMonitor ==
    /\ pc = "monitor"
    /\ runs = 1
    /\ dry_run \in BOOLEAN
    /\ max_moves = 1
    /\ timeout \in MonitorTimeouts
    /\ cooldown_days = 0
    /\ now \in MoveTimes
    /\ days = 0
    /\ series_df = <<>>
    /\ disk_spaces = <<>>
    /\ final_free_space = <<>>
    /\ idx = 1
    /\ report_recs = <<>>
    /\ \E series_id \in 1..NumSeries, new_root_path \in Targets :
          /\ recommendations =
                <<[series_id |-> series_id,
                   current_root |-> MkPath("a", FALSE, FALSE),
                   recommended_root |-> new_root_path,
                   path |-> <<MkPath("a", FALSE, FALSE), series_id>>,
                   size_gb |-> 1]>>
          /\ state_file = [k \in {str(series_id)} |-> new_root_path]
          /\ history_file =
                [k \in {str(series_id)} |->
                    [last_moved_to |-> new_root_path,
                     timestamp |-> isoformat(now)]]
          /\ puts = IF dry_run THEN <<>>
                    ELSE <<[series_id |-> series_id, target |-> new_root_path,
                            ok |-> TRUE, again |-> FALSE]>>
          /\ accepted = IF dry_run THEN {}
                        ELSE {<<series_id, new_root_path>>}
    /\ moves_count = 1
    /\ visit = NoVisit
    /\ state = state_file
    /\ moves_completed = 1
    /\ rec_i = 1
    /\ start_time = 0
    /\ entry = NoEntry
    /\ outcome = "active"
    /\ verdict = NoVerdict
    /\ fetch_error = "none"
    /\ outcomes = <<>>
    /\ polls = <<>>

NextMonitor == MonitorStart \/ MonitorPoll

\* the call runs on: the script is the only thread and sleep returns
SpecMonitor ==
    /\ InitMonitor
    /\ [][NextMonitor]_vars
    /\ WF_vars(MonitorStart)
    /\ WF_vars(MonitorPoll)

\* =============================================================== properties
RECURSIVE SumOver(_, _)
SumOver(f, S) ==
    IF S = {} THEN 0
    ELSE LET x == CHOOSE y \in S : TRUE IN f[x] + SumOver(f, S \ {x})

\* the volumes of a table that the allow-list names (case-insensitively)
Participating(table) == {p \in DOMAIN table : lower(p) \in valid_root_paths}

InPerformMoves ==
    pc \in {"loop", "get", "put", "rescan", "record", "history", "monitor",
            "poll"}

Recorded(r) ==
    /\ str(r.series_id) \in DOMAIN state_file
    /\ state_file[str(r.series_id)] = r.recommended_root
    /\ str(r.series_id) \in DOMAIN history_file
    /\ history_file[str(r.series_id)].last_moved_to = r.recommended_root

\* C1 (as claimed): while perform_moves runs with dry_run = true, no PUT has
\* been sent and move_state.json and move_history.json are as perform_moves
\* found them.
C1_DryRunPurity ==
    (dry_run /\ InPerformMoves) =>
        /\ puts = <<>>
        /\ state_file = entry.state_file
        /\ history_file = entry.history_file

\* C2: in one invocation the service receives at most max_moves PUT requests,
\* the rejected ones included.
C2_CapRespected == Len(puts) <= max_moves

\* C2 witness: the planner stopped at the cap with rows left, every PUT the
\* cap allows was sent, and the first one was rejected.
C2_Witness ==
    /\ max_moves > 0
    /\ Len(puts) = max_moves
    /\ ~puts[1].ok
    /\ idx <= Len(sorted_df)

\* C3: move_series is never called for a series that move_state.json already
\* holds, whatever the cooldown.
C3_AtMostOnce ==
    pc \in {"get", "put", "rescan"} => str(rec.series_id) \notin DOMAIN state_file

\* C3 witness: with a cooldown of 0 days, move_series is called for one
\* series while another series of the same snapshot, marked by an earlier
\* invocation, got no proposal.
C3_Witness ==
    /\ pc = "get"
    /\ cooldown_days = 0
    /\ \E i \in 1..Len(series_df) :
          /\ str(series_df[i].series_id) \in DOMAIN entry.state_file
          /\ series_df[i].series_id # rec.series_id

\* C4 (as claimed): no PUT is sent for a series and a target for which the
\* service accepted a PUT before, as long as move_state.json was not removed.
C4_NoReissue == \A i \in 1..Len(puts) : ~puts[i].again

\* C5 (as claimed): for a series moved to V at T, should_move_series for V is
\* false from T to before T + cooldown and true from T + cooldown on.
C5_Cooldown ==
    (/\ verdict # NoVerdict
     /\ str(verdict.series_id) \in DOMAIN history_file
     /\ history_file[str(verdict.series_id)].last_moved_to = verdict.new_root_path)
    => LET T == fromisoformat(history_file[str(verdict.series_id)].timestamp)
       IN  /\ (T <= now /\ now < T + cooldown_days * SecondsPerDay)
                  => ~verdict.result
           /\ now >= T + cooldown_days * SecondsPerDay => verdict.result

\* C5 (amended): for a series moved to V at T, should_move_series for another
\* volume W is false from T to before T + cooldown and true from T + cooldown
\* on; for V itself it is false at every time.
C5_CooldownOtherTarget ==
    (verdict # NoVerdict /\ str(verdict.series_id) \in DOMAIN history_file)
    => LET last == history_file[str(verdict.series_id)]
           T == fromisoformat(last.timestamp)
       IN  IF last.last_moved_to = verdict.new_root_path
           THEN ~verdict.result
           ELSE /\ (T <= now /\ now < T + cooldown_days * SecondsPerDay)
                       => ~verdict.result
                /\ now >= T + cooldown_days * SecondsPerDay => verdict.result

\* C5 witness: asked about another volume exactly one cooldown of a day after
\* the move, the answer is true.
C5_Witness ==
    /\ verdict # NoVerdict
    /\ str(verdict.series_id) \in DOMAIN history_file
    /\ history_file[str(verdict.series_id)].last_moved_to # verdict.new_root_path
    /\ cooldown_days = 1
    /\ now = fromisoformat(history_file[str(verdict.series_id)].timestamp)
             + SecondsPerDay
    /\ verdict.result

\* C6: should_move_series is false whenever the target is the recorded
\* last_moved_to of the series, however long ago, and true for a series
\* without a history entry.
C6_AntiPingPong ==
    verdict # NoVerdict =>
        IF str(verdict.series_id) \in DOMAIN history_file
        THEN history_file[str(verdict.series_id)].last_moved_to
                 = verdict.new_root_path => ~verdict.result
        ELSE verdict.result

\* C6 witness: asked about the recorded target more than a day after the
\* cooldown ended, the answer is false.
C6_Witness ==
    /\ verdict # NoVerdict
    /\ str(verdict.series_id) \in DOMAIN history_file
    /\ history_file[str(verdict.series_id)].last_moved_to = verdict.new_root_path
    /\ now > fromisoformat(history_file[str(verdict.series_id)].timestamp)
             + (cooldown_days + 1) * SecondsPerDay
    /\ ~verdict.result

\* C7 (as claimed): throughout a planning pass the projected free space of
\* the participating volumes sums to what the snapshot gave them.
C7_Conservation ==
    pc \in {"report", "balance", "loop", "crashed"} =>
        SumOver(final_free_space, Participating(final_free_space))
          = SumOver(initial_free_space(disk_spaces, balance_index),
                    Participating(final_free_space))

PlannerVisit == visit.planner \in {"report", "balance"} /\ ~visit.skipped

\* C8 (as claimed): a planner that visits a series whose volume, case
\* ignored, holds the maximum projected free space of the participating
\* volumes, ties included, emits no proposal for it.
C8_IdempotentNoOp ==
    PlannerVisit =>
        LET part == Participating(visit.before)
        IN  (\E v \in part : /\ lower(v) = visit.root
                             /\ \A w \in part : visit.before[w] <= visit.before[v])
            => ~visit.emitted

\* C8 (amended): a planner that visits a series whose volume is the first one
\* of its table, in the order of the disk-space reply, to hold the maximum
\* projected free space emits no proposal for it and leaves the table alone.
C8_FirstMaxNoOp ==
    PlannerVisit =>
        ((\E i \in 1..Len(visit.index) :
             /\ visit.index[i] = visit.root
             /\ \A j \in 1..Len(visit.index) :
                   visit.before[visit.index[j]] <= visit.before[visit.root]
             /\ \A j \in 1..(i - 1) :
                   visit.before[visit.index[j]] < visit.before[visit.root])
         => /\ ~visit.emitted
            /\ ~visit.raised
            /\ visit.after = visit.before)

\* C8 witness: the balancing planner visited a series on the first-listed of
\* two volumes that tie for the maximum, and emitted nothing.
C8_Witness ==
    /\ visit.planner = "balance"
    /\ ~visit.skipped
    /\ ~visit.emitted
    /\ \E i, k \in 1..Len(visit.index) :
          /\ i < k
          /\ visit.index[i] = visit.root
          /\ visit.before[visit.index[k]] = visit.before[visit.root]
          /\ \A j \in 1..Len(visit.index) :
                visit.before[visit.index[j]] <= visit.before[visit.root]
          /\ \A j \in 1..(i - 1) :
                visit.before[visit.index[j]] < visit.before[visit.root]

\* C9 (as claimed): every proposal handed to perform_moves has a target that
\* the allow-list names.
C9_AllowList ==
    \A i \in 1..Len(recommendations) :
        lower(recommendations[i].recommended_root) \in valid_root_paths

\* C10: from the start of monitoring on, and after it ended with a match or a
\* timeout, the move is in move_state.json and move_history.json with its
\* target, and moves_completed counts every move recorded in this invocation.
C10_NoRollback ==
    LET counted == moves_completed
                     = Cardinality(DOMAIN state_file \ DOMAIN entry.state_file)
    IN  /\ pc \in {"monitor", "poll"} => Recorded(rec) /\ counted
        /\ (pc = "loop" /\ outcome \in {"completed", "timed_out"})
               => Recorded(recommendations[rec_i - 1]) /\ counted

\* C10 witness: with a timeout of 0 seconds the monitoring of a real move
\* ended in a timeout and the move is recorded and counted.
C10_Witness ==
    /\ pc = "loop"
    /\ outcome = "timed_out"
    /\ timeout = 0
    /\ ~dry_run
    /\ moves_completed = 1
    /\ Recorded(recommendations[rec_i - 1])

\* C11: while move_series runs, the two stores and moves_completed are not
\* touched; when it returns False, perform_moves is back at the head of its
\* loop with the next proposal; and after a failure with proposals left it
\* does not stop.
C11_IssuanceFailureLocal ==
    [][/\ pc \in {"get", "put", "rescan"}
             => /\ state_file' = state_file
                /\ history_file' = history_file
                /\ state' = state
                /\ moves_completed' = moves_completed
       /\ (outcome = "active" /\ outcome' = "failed")
             => pc' = "loop" /\ rec_i' = rec_i + 1
       /\ (pc = "loop" /\ outcome = "failed"
              /\ rec_i <= Len(recommendations))
             => pc' # "done"]_vars

\* C11 witness: the PUT of the first proposal was rejected, nothing was
\* recorded or counted, and move_series is called for the second proposal.
C11_Witness ==
    /\ pc = "get"
    /\ rec_i = 2
    /\ outcomes = <<"failed">>
    /\ Len(puts) = 1
    /\ ~puts[1].ok
    /\ state_file = entry.state_file
    /\ history_file = entry.history_file
    /\ moves_completed = 0

\* C12 (as claimed): once the fetch of the series or of the disk space has
\* failed, the run does not crash: it plans nothing, sends no PUT, proposes
\* nothing, and goes on to its normal end.
C12_FetchErrorsRecoverable ==
    fetch_error # "none" =>
        /\ pc \in {"disks", "done"}
        /\ report_recs = <<>>
        /\ recommendations = <<>>
        /\ puts = <<>>
        /\ outcomes = <<>>

\* the largest minus the smallest projected free space of the volumes in S
Spread(table, S) ==
    IF S = {} THEN 0
    ELSE LET hi == CHOOSE v \in S : \A w \in S : table[w] <= table[v]
             lo == CHOOSE v \in S : \A w \in S : table[v] <= table[w]
         IN  table[hi] - table[lo]

\* C13 (as claimed): at the end of a planning pass the projected free space
\* of the participating volumes is spread no wider than in the snapshot.
C13_Equalization ==
    /\ (pc = "report" /\ idx > Len(sorted_df)) =>
           Spread(final_free_space, Participating(final_free_space))
             <= Spread(initial_free_space(disk_spaces, report_index),
                       Participating(final_free_space))
    /\ pc = "loop" =>
           Spread(final_free_space, Participating(final_free_space))
             <= Spread(initial_free_space(disk_spaces, balance_index),
                       Participating(final_free_space))

\* C19 (as claimed): a proposal is no larger than the projected free space of
\* its target when it is emitted, and no projected free space is negative.
C19_TargetCapacity ==
    /\ (PlannerVisit /\ visit.emitted) =>
           visit.size <= visit.before[visit.recs[1].recommended_root]
    /\ pc \in {"report", "balance", "loop", "crashed"} =>
           \A v \in DOMAIN final_free_space : final_free_space[v] >= 0

\* C20 (as claimed): with move_state.json empty and every reported volume
\* named, case ignored, by the allow-list, perform_moves gets the first
\* min(max_moves, n) of the n proposals of the report, in the same order.
C20_ReportMatchesExecution ==
    (/\ pc = "loop"
     /\ state = <<>>
     /\ \A i \in 1..Len(disk_spaces) :
            lower(rstrip(disk_spaces[i].path)) \in valid_root_paths)
    => recommendations
         = SubSeq(report_recs, 1,
                  IF max_moves < Len(report_recs) THEN max_moves
                  ELSE Len(report_recs))

\* C14 (as claimed): once the service has accepted the PUT for a series,
\* then by the time that series is monitored, and by the time a request for
\* a later proposal has been sent, the series is in move_state.json and
\* move_history.json with its target and every accepted PUT is counted.
C14_RecordBeforeMonitor ==
    \A i \in 1..Len(puts) :
        (/\ puts[i].ok
         /\ \/ pc \in {"monitor", "poll"}
            \/ /\ pc \in {"put", "rescan", "record", "history"}
               /\ rec.series_id # puts[i].series_id)
        => /\ Recorded([series_id |-> puts[i].series_id,
                         recommended_root |-> puts[i].target])
           /\ moves_completed >= Cardinality({j \in 1..i : puts[j].ok})

\* the proposals that count toward the cap: the ones that were issued
Counted ==
    Cardinality({i \in 1..Len(outcomes) :
                    outcomes[i] \in {"completed", "failed", "timed_out",
                                     "simulated"}})

\* the planner's loop body without the cap: does row i get a proposal on the
\* table as it stands
Emits(i) ==
    /\ ~in_state(sorted_df[i].series_id)
    /\ simulate_row(balance_index, final_free_space, sorted_df[i]).recs # <<>>

\* the next proposal an unbounded planner would have emitted is eligible
EligibleRemains ==
    \E i \in idx..Len(sorted_df) :
        /\ Emits(i)
        /\ \A j \in idx..(i - 1) : ~Emits(j)
        /\ LET next == simulate_row(balance_index, final_free_space,
                                    sorted_df[i]).recs[1]
           IN  should_move_series(next.series_id, next.recommended_root)

\* C15 (as claimed): perform_moves never issues more than max_moves
\* proposals, skipped ones are not counted, and it ends only when max_moves
\* proposals were issued or no eligible proposal is left.
C15_CapCounting ==
    /\ Counted <= max_moves
    /\ (pc = "done" /\ series_df # <<>> /\ Counted < max_moves)
           => ~EligibleRemains

Terminal == {"skipped", "simulated", "failed", "completed", "timed_out"}

Active == {"get", "put", "rescan", "record", "history", "monitor", "poll"}

\* C16: while a proposal is being issued or monitored, every proposal before
\* it has ended in a terminal state, so it is the only active one; between
\* two proposals none is active.
C16_Serialized ==
    /\ \A k \in 1..Len(outcomes) : outcomes[k] \in Terminal
    /\ pc \in Active => Len(outcomes) = rec_i - 1
    /\ pc = "loop" => Len(outcomes) = rec_i - 1

\* C16 witness: the PUT for the second proposal is about to be sent after
\* the monitoring of the first one found the completion message.
C16_Witness ==
    /\ pc = "put"
    /\ rec_i = 2
    /\ outcomes = <<"completed">>
    /\ Len(puts) = 1

\* monitor_sonarr_logs has returned / returned True / returned False
MonitorReturned == pc = "loop"

ReturnedTrue == MonitorReturned /\ outcome \in {"completed", "simulated"}

ReturnedFalse == MonitorReturned /\ outcome = "timed_out"

\* what holds of every call outside a dry run: no fetch follows a match; True
\* is returned on the first fetch with a match; False is returned only with
\* the timeout used up and no match seen, whatever fetches failed
OracleReturns ==
    /\ pc = "poll" => \A k \in 1..Len(polls) : polls[k] # "match"
    /\ (ReturnedTrue /\ ~dry_run) =>
           /\ polls # <<>>
           /\ polls[Len(polls)] = "match"
           /\ \A k \in 1..(Len(polls) - 1) : polls[k] # "match"
    /\ ReturnedFalse =>
           /\ now - start_time >= timeout
           /\ \A k \in 1..Len(polls) : polls[k] # "match"

\* with the timeout used up the next test of the while condition ends the
\* call with False, without another fetch
OracleStops ==
    (pc = "poll" /\ now - start_time >= timeout)
        => (pc' = "loop" /\ outcome' = "timed_out" /\ polls' = polls)

\* C17 (as claimed): monitor_sonarr_logs terminates; it returns True on the
\* first fetch with a match, False once the timeout is used up, never False
\* before that because a fetch failed; and with a timeout of 0 it returns
\* False without a fetch.
C17_CompletionOracle ==
    /\ []OracleReturns
    /\ [][OracleStops]_vars
    /\ (pc = "monitor") ~> MonitorReturned
    /\ []((MonitorReturned /\ timeout = 0)
             => (ReturnedFalse /\ polls = <<>>))

\* C17 (amended): the same for every call outside a dry run; in a dry run
\* the call returns True at once, without a fetch, whatever the timeout.
C17_OracleRealRun ==
    /\ []OracleReturns
    /\ [][OracleStops]_vars
    /\ (pc = "monitor") ~> MonitorReturned
    /\ []((MonitorReturned /\ timeout = 0 /\ ~dry_run)
             => (ReturnedFalse /\ polls = <<>>))
    /\ []((MonitorReturned /\ dry_run)
             => (ReturnedTrue /\ polls = <<>>))

\* C17 witness: outside a dry run a first fetch failed, the call slept and
\* fetched again, and the second fetch held the completion message.
C17_Witness ==
    /\ ReturnedTrue
    /\ ~dry_run
    /\ polls = <<"error", "match">>
    /\ now - start_time = PollInterval

\* C18: starting from empty stores, except between the two writes of one
\* move, every series in move_state.json is in move_history.json and the
\* two files name the same target for it.
C18_StoreAgreement ==
    pc # "history" =>
        \A k \in DOMAIN state_file :
            /\ k \in DOMAIN history_file
            /\ history_file[k].last_moved_to = state_file[k]

\* C18 witness: after two invocations a day apart both series are in both
\* files, recorded by different invocations.
C18_Witness ==
    /\ pc = "idle"
    /\ runs = 2
    /\ DOMAIN state_file = {str(1), str(2)}
    /\ DOMAIN history_file = {str(1), str(2)}
    /\ history_file[str(1)].timestamp[1] # history_file[str(2)].timestamp[1]
    /\ \A k \in DOMAIN state_file :
          history_file[k].last_moved_to = state_file[k]

====
